---- MODULE Spec2Model ----
(***************************************************************************)
(* kitty remote control: the dispatcher (handle_cmd), the registry of      *)
(* outstanding asynchronous requests (active_async_requests), completion   *)
(* delivery (send_response_to_client) and the client driver (main, do_io,  *)
(* SocketIO) of kitty/remote_control.py.                                   *)
(***************************************************************************)
EXTENDS Integers, Sequences, FiniteSets, TLC

(***************************************************************************)
(* Bounds of the model.                                                    *)
(***************************************************************************)
\* async ids are 1..MaxIds; a client's fresh id (uuid4) is the lowest unused one
MaxIds == 34
\* RegistrySpec: how many times an id that was already used is used again
MaxProbes == 2
\* RegistrySpec: ids are used again only once the registry is within ProbeWindow
\* entries of its capacity
ProbeWindow == 1
\* Spec: the async ids clients use are 1..SmallIds
SmallIds == 2
\* Spec: registrations stop when the clock reaches MaxClock
MaxClock == 3
\* FrameSpec: the strings in an envelope have at most MaxStringLen characters
MaxStringLen == 2

(***************************************************************************)
(* Program constants.                                                      *)
(***************************************************************************)
\* remote_control.py:54  if len(active_async_requests) > 32
Capacity == 32
\* remote_control.py:46  str(cmd.get('async', '')): the empty string, which is falsy
NoAsyncId == 0

VARIABLES
    active_async_requests,  \* the dict, as the sequence of its items in iteration order
    clock,                  \* the next value monotonic() returns
    version,                \* kitty.constants.version of the running instance
    call,                   \* the call that ran last, with its arguments
    ret,                    \* what the call returned or raised
    ans,                    \* what response_from_kitty did in that call, if it was called
    hook,                   \* whether that call invoked cancel_async_request
    written,                \* what that call handed to a peer or to a window
    evicted,                \* the id that call evicted, or NoAsyncId
    history,                \* per id: the last thing that happened to it, and the
                            \* clock when it entered the registry last
    used,                   \* RegistrySpec: how many fresh ids have been registered
    probes,                 \* RegistrySpec: how many times a used id was used again
    served,                 \* SessionSpec: how many frames of wire the server has handled
    \* the client, kitty @ (main):
    pc,                     \* where the client is
    opts,                   \* the command, its options and the transport of this run
    send,                   \* main's dict send, the envelope
    exchange,               \* which call of do_io runs: 1, or 2 for the cancellation
    io_no_response,         \* do_io's argument no_response
    io_timeout,             \* do_io's argument response_timeout
    handles,                \* the sockets and tty handles opened so far, each open or closed
    wire,                   \* the frames written to the transport so far
    main_response,          \* main's response: what do_io returned
    exc,                    \* the exception that is propagating, or "none"
    outcome,                \* how main ended
    reads,                  \* how many times simple_recv was called
    cancels,                \* how many times the timeout handler ran
    \* one frame through the encoders and the socket receiver:
    envelope,               \* the structure given to encode_send / encode_response_for_peer
    direction,              \* which of the two encoders is used
    stream,                 \* the bytes the encoder returned, as the socket carries them
    received,               \* what simple_recv returned
    loaded,                 \* what json.loads made of it
    step                    \* how far the frame has got, or the exception that stopped it

serverVars == <<active_async_requests, clock, version, call, ret, ans, hook, written,
                evicted, history>>

clientVars == <<pc, opts, send, exchange, io_no_response, io_timeout, handles, wire,
                main_response, exc, outcome, reads, cancels>>

frameVars == <<envelope, direction, stream, received, loaded, step>>

vars == <<serverVars, used, probes, served, clientVars, frameVars>>

Min(a, b) == IF a < b THEN a ELSE b

(***************************************************************************)
(* The dict active_async_requests: Dict[str, float].  A Python dict        *)
(* iterates in insertion order; assigning to a key that is present keeps   *)
(* the key's position.                                                     *)
(***************************************************************************)
Keys(d) == {d[i].id : i \in DOMAIN d}

\* a slip: the key stays
DictPopKeeps(d, k) == d

\* d.pop(k, None): the dict without k
DictPop(d, k) == SelectSeq(d, LAMBDA e : e.id # k)

\* a slip: a key that is present moves to the end
DictSetMovesToEnd(d, k, v) ==
    Append(SelectSeq(d, LAMBDA e : e.id # k), [id |-> k, ts |-> v])

\* d[k] = v
DictSet(d, k, v) ==
    IF k \in Keys(d)
    THEN [i \in DOMAIN d |-> IF d[i].id = k THEN [id |-> k, ts |-> v] ELSE d[i]]
    ELSE Append(d, [id |-> k, ts |-> v])

\* a slip: the entry with the smallest timestamp instead of the first one inserted
OldestByTimestamp(d) ==
    d[CHOOSE i \in DOMAIN d : \A j \in DOMAIN d : d[i].ts <= d[j].ts].id

\* a slip: the entry inserted last
Newest(d) == d[Len(d)].id

\* oldest = next(iter(active_async_requests))
Oldest(d) == d[1].id

(***************************************************************************)
(* The version gate: tuple(v)[:2] > version[:2], Python's lexicographic    *)
(* comparison of tuples.                                                   *)
(***************************************************************************)
Prefix2(v) == SubSeq(v, 1, Min(2, Len(v)))

RECURSIVE TupleGreater(_, _)
TupleGreater(a, b) ==
    IF a = <<>> THEN FALSE
    ELSE IF b = <<>> THEN TRUE
    ELSE IF a[1] # b[1] THEN a[1] > b[1]
    ELSE TupleGreater(Tail(a), Tail(b))

\* a slip: the whole version is compared
ClientIsNewerAllComponents(v, sv) == TupleGreater(v, sv)

ClientIsNewer(v, sv) == TupleGreater(Prefix2(v), Prefix2(sv))

(***************************************************************************)
(* The command catalogue (kitty.rc.base.command_for_name): the descriptor  *)
(* of a command, by name.  A name that is not there raises KeyError.       *)
(***************************************************************************)
command_for_name ==
    [ new_window |-> [no_response |-> FALSE, string_return_is_error |-> FALSE,
                      is_asynchronous |-> FALSE],
      select_window |-> [no_response |-> FALSE, string_return_is_error |-> TRUE,
                         is_asynchronous |-> TRUE],
      signal_child |-> [no_response |-> TRUE, string_return_is_error |-> FALSE,
                        is_asynchronous |-> FALSE] ]

(***************************************************************************)
(* Envelopes: the decoded JSON object, a function whose domain is the set  *)
(* of keys that are present.                                               *)
(***************************************************************************)
Get(cmd, key, default) == IF key \in DOMAIN cmd THEN cmd[key] ELSE default

Nothing == [k \in {} |-> TRUE]

Optional(key, values) == {Nothing} \cup {[k \in {key} |-> x] : x \in values}

\* a serialized_cmd that json.loads rejects is kept as its text
NotJson == [text |-> "{'cmd': "]

\* line 36: json.loads(serialized_cmd) returns
IsJson(cmd) == "text" \notin DOMAIN cmd

\* what c.response_from_kitty can do
ExecOutcomes == {"raise", "None", "value", "NoResponse", "AsyncResponse"}

None == [kind |-> "None"]
AsyncResponse == [kind |-> "AsyncResponse"]
Raised(e) == [kind |-> "raise", exc |-> e]
CompatError == [kind |-> "response", ok |-> FALSE, error |-> "client is newer"]
OkResponse(data) ==
    IF data = "None" THEN [kind |-> "response", ok |-> TRUE]
    ELSE [kind |-> "response", ok |-> TRUE, data |-> data]

(***************************************************************************)
(* What a call leaves behind: the registry, the record of the call, and    *)
(* the history of the ids.  registered is the id line 53 stored, gone the  *)
(* id line 50, 56 or 188 took out (why says which), NoAsyncId if none.     *)
(***************************************************************************)
Status(h, i) == IF i \in DOMAIN h THEN h[i].state ELSE "never"

HistoryAfter(h, registered, gone, why, now) ==
    [i \in DOMAIN h \cup ({registered, gone} \ {NoAsyncId}) |->
        IF i = gone
        THEN [state |-> why, at |-> 0]
        ELSE IF i = registered
        THEN [state |-> "live", at |-> IF Status(h, i) = "live" THEN h[i].at ELSE now]
        ELSE h[i]]

Leave(c, r, a, h, w, d, registered, gone, why) ==
    /\ active_async_requests' = d
    /\ call' = c
    /\ ret' = r
    /\ ans' = a
    /\ hook' = h
    /\ written' = w
    /\ clock' = IF registered # NoAsyncId THEN clock + 1 ELSE clock
    /\ evicted' = IF why = "evicted" THEN gone ELSE NoAsyncId
    /\ history' = HistoryAfter(history, registered, gone, why, clock)
    /\ UNCHANGED version

\* a slip: the id of the envelope is taken out of the registry first
UnchangedAfterPop(c, r) ==
    Leave(c, r, "not called", FALSE, {}, DictPop(active_async_requests, c.async_id),
          NoAsyncId, NoAsyncId, "")

Unchanged(c, r) ==
    Leave(c, r, "not called", FALSE, {}, active_async_requests,
          NoAsyncId, NoAsyncId, "")

(***************************************************************************)
(* handle_cmd, lines 35-72.  outcomes is what c.response_from_kitty can    *)
(* do if the call gets to it.                                              *)
(***************************************************************************)
\* a slip: off by one in the capacity test
OverflowOffByOne(d) == Len(d) > Capacity + 1

\* line 54
Overflow(d) == Len(d) > Capacity

\* lines 53-56: register, then evict the oldest entry when over capacity
Register(d, k, now) ==
    LET d1 == DictSet(d, k, now)
    IN  IF Overflow(d1) THEN DictPop(d1, Oldest(d1)) ELSE d1

\* the id lines 55-56 delete when k is registered
Evicts(d, k, now) ==
    LET d1 == DictSet(d, k, now)
    IN  IF Overflow(d1) THEN Oldest(d1) ELSE NoAsyncId

\* a slip: the command's own no_response is not looked at
NormalisedForCallerOnly(a, c_no_response, no_response) ==
    IF a = "NoResponse" THEN None
    ELSE IF a = "AsyncResponse" THEN AsyncResponse
    ELSE IF ~no_response THEN OkResponse(a)
    ELSE None

\* lines 63-72: the result of the execution, normalised
Normalised(a, c_no_response, no_response) ==
    IF a = "NoResponse" THEN None
    ELSE IF a = "AsyncResponse" THEN AsyncResponse
    ELSE IF ~c_no_response /\ ~no_response THEN OkResponse(a)
    ELSE None

HandleCmd(cmd, outcomes) ==
    LET no_response == Get(cmd, "no_response", FALSE)
        async_id == Get(cmd, "async", NoAsyncId)
        c == [op |-> "handle_cmd", cmd |-> cmd, async_id |-> async_id]
        d == active_async_requests
    IN  IF ~IsJson(cmd)
        THEN Unchanged(c, Raised("JSONDecodeError"))
        ELSE IF "version" \notin DOMAIN cmd
        THEN Unchanged(c, Raised("KeyError"))
        ELSE IF ClientIsNewer(cmd.version, version)
        THEN Unchanged(c, IF no_response THEN None ELSE CompatError)
        ELSE IF "cmd" \notin DOMAIN cmd \/ cmd.cmd \notin DOMAIN command_for_name
        THEN Unchanged(c, Raised("KeyError"))
        ELSE IF async_id # NoAsyncId /\ "cancel_async" \in DOMAIN cmd
        THEN Leave(c, None, "not called", TRUE, {}, DictPop(d, async_id),
                   NoAsyncId, async_id, "cancelled")
        ELSE \E a \in outcomes :
               LET r == IF a = "raise"
                        THEN (IF no_response THEN None ELSE Raised("Exception"))
                        ELSE Normalised(a, command_for_name[cmd.cmd].no_response,
                                        no_response)
               IN  IF async_id # NoAsyncId
                   THEN Leave(c, r, a, FALSE, {}, Register(d, async_id, clock),
                              async_id, Evicts(d, async_id, clock), "evicted")
                   ELSE Leave(c, r, a, FALSE, {}, d, NoAsyncId, NoAsyncId, "")

(***************************************************************************)
(* send_response_to_client, lines 187-200.  get_boss().window_id_map[id]   *)
(* gives a window, or None, or raises KeyError.                            *)
(***************************************************************************)
WindowLookups == {"window", "None", "KeyError"}

\* a slip: the completion is delivered whether or not the id is registered
TrackedAlways(d, async_id) == TRUE

\* lines 188-190: ts = active_async_requests.pop(async_id, None); ts is not None
Tracked(d, async_id) == async_id \in Keys(d)

\* a slip: the error is not looked at
CompletionResponseAlwaysOk(data, error) == [ok |-> TRUE, data |-> data]

\* lines 191-194
CompletionResponse(data, error) ==
    IF error # "" THEN [ok |-> FALSE, error |-> error]
    ELSE [ok |-> TRUE, data |-> data]

SendResponseToClient(data, error, peer_id, window_id, async_id) ==
    LET c == [op |-> "send_response_to_client", async_id |-> async_id, data |-> data,
              error |-> error, peer_id |-> peer_id, window_id |-> window_id]
        d == active_async_requests
        response == CompletionResponse(data, error)
        Popped(cl, r, w) == Leave(cl, r, "not called", FALSE, w, DictPop(d, async_id),
                                  NoAsyncId, async_id, "completed")
    IN  IF ~Tracked(d, async_id)
        THEN Unchanged(c, None)
        ELSE IF peer_id > 0
        THEN Popped(c, None, {[to |-> "peer", id |-> peer_id, response |-> response]})
        ELSE IF window_id > 0
        THEN \E w \in WindowLookups :
               LET cw == c @@ [window |-> w]
               IN  IF w = "KeyError" THEN Popped(cw, Raised("KeyError"), {})
                   ELSE IF w = "None" THEN Popped(cw, None, {})
                   ELSE Popped(cw, None, {[to |-> "window", id |-> window_id,
                                           response |-> response]})
        ELSE Popped(c, None, {})

(***************************************************************************)
(* Spec: the dispatcher and completion delivery, with every kind of        *)
(* envelope and every outcome of the execution, on a few async ids.  The   *)
(* ids come into use in the order 1, 2, ...                                *)
(***************************************************************************)
\* the server's version, and client versions on either side of it
ServerVersion == <<1, 4, 9>>
SpecVersions == {<<1, 4, 0>>, <<1, 5, 0>>}

MakeEnvelopes(names, versions, no_responses, ids, markers) ==
    {[cmd |-> n, version |-> v] @@ nr @@ a @@ ca :
        n \in names, v \in versions,
        nr \in Optional("no_response", no_responses),
        a \in Optional("async", ids),
        ca \in Optional("cancel_async", markers)}

SomeIds == {i \in 1 .. SmallIds : i = 1 \/ i - 1 \in DOMAIN history}

\* what json.loads rejects, and objects without the keys lines 37 and 43 read
BrokenEnvelopes ==
    {NotJson, [cmd |-> "new_window", async |-> 1], [version |-> <<1, 4, 0>>, async |-> 1]}

\* envelopes whose cancel_async is false
UnmarkedEnvelopes ==
    {cmd \in MakeEnvelopes({"new_window"}, {<<1, 4, 0>>}, {}, SomeIds, {FALSE}) :
        "cancel_async" \in DOMAIN cmd}

Envelopes ==
    MakeEnvelopes({"new_window", "signal_child", "no_such_command"}, SpecVersions,
                  {TRUE}, SomeIds, {TRUE}) \cup BrokenEnvelopes \cup UnmarkedEnvelopes

InitServer ==
    /\ active_async_requests = <<>>
    /\ clock = 1
    /\ call = [op |-> "none", async_id |-> NoAsyncId]
    /\ ret = None
    /\ ans = "not called"
    /\ hook = FALSE
    /\ written = {}
    /\ evicted = NoAsyncId
    /\ history = Nothing
    /\ used = 0
    /\ probes = 0
    /\ served = 0

\* the client has not been started
InitClient ==
    /\ pc = "idle"
    /\ opts = Nothing
    /\ send = Nothing
    /\ exchange = 0
    /\ io_no_response = FALSE
    /\ io_timeout = 0
    /\ handles = <<>>
    /\ wire = <<>>
    /\ main_response = Nothing
    /\ exc = "none"
    /\ outcome = Nothing
    /\ reads = 0
    /\ cancels = 0

\* no frame is under way
InitFrame ==
    /\ envelope = <<"null", "null">>
    /\ direction = "none"
    /\ stream = <<>>
    /\ received = <<>>
    /\ loaded = <<"null", "null">>
    /\ step = "idle"

Init == InitServer /\ InitClient /\ InitFrame /\ version = ServerVersion

Dispatch ==
    /\ \E cmd \in Envelopes : HandleCmd(cmd, ExecOutcomes)
    /\ clock' <= MaxClock
    /\ UNCHANGED <<used, probes, served, clientVars, frameVars>>

Deliver ==
    /\ \E async_id \in SomeIds \cup {NoAsyncId}, error \in {"", "failed"},
          peer_id \in {0, 1}, window_id \in {0, 1} :
            SendResponseToClient("done", error, peer_id, window_id, async_id)
    /\ UNCHANGED <<used, probes, served, clientVars, frameVars>>

Next == Dispatch \/ Deliver

Spec == Init /\ [][Next]_vars

(***************************************************************************)
(* NoResponseSpec: the same, when every envelope has no_response true.     *)
(***************************************************************************)
NoResponseEnvelopes ==
    {cmd \in Envelopes : Get(cmd, "no_response", FALSE)}

NoResponseDispatch ==
    /\ \E cmd \in NoResponseEnvelopes : HandleCmd(cmd, ExecOutcomes)
    /\ clock' <= MaxClock
    /\ UNCHANGED <<used, probes, served, clientVars, frameVars>>

NoResponseNext == NoResponseDispatch \/ Deliver

NoResponseSpec == Init /\ [][NoResponseNext]_vars

(***************************************************************************)
(* RegistrySpec: the same two operations on as many ids as it takes to     *)
(* fill the registry, every envelope and every completion with an id.  A   *)
(* fresh id is the lowest one never registered; ids used before are the    *)
(* oldest and the newest entry of the registry and the ids that left it.   *)
(***************************************************************************)
FreshIds == IF used < MaxIds THEN {used + 1} ELSE {}

UsedIds ==
    IF probes < MaxProbes /\ Len(active_async_requests) >= Capacity - ProbeWindow
    THEN {i \in 1 .. used :
            \/ Status(history, i) # "live"
            \/ i = active_async_requests[1].id
            \/ i = active_async_requests[Len(active_async_requests)].id}
    ELSE {}

RegistryEnvelopes ==
    {cmd \in MakeEnvelopes({"new_window"}, {<<1, 4, 0>>}, {}, FreshIds \cup UsedIds,
                           {TRUE}) : "async" \in DOMAIN cmd}

RegistryOutcomes == {"value", "raise", "AsyncResponse"}

Account(async_id) ==
    /\ used' = IF async_id = used + 1 /\ async_id \in Keys(active_async_requests')
               THEN used + 1 ELSE used
    /\ probes' = IF async_id \in 1 .. used THEN probes + 1 ELSE probes
    /\ UNCHANGED <<served, clientVars, frameVars>>

RegistryDispatch ==
    \E cmd \in RegistryEnvelopes :
        HandleCmd(cmd, RegistryOutcomes) /\ Account(Get(cmd, "async", NoAsyncId))

RegistryDeliver ==
    \E async_id \in UsedIds :
        SendResponseToClient("done", "", 1, 0, async_id) /\ Account(async_id)

RegistryNext == RegistryDispatch \/ RegistryDeliver

RegistrySpec == Init /\ [][RegistryNext]_vars

(***************************************************************************)
(* GateSpec: handle_cmd on every pair of a server version and a client     *)
(* version with components drawn from VersionParts.                        *)
(***************************************************************************)
VersionParts == <<{0, 1}, {4, 5}, {0, 9}>>

Versions == {<<a, b, c>> : a \in VersionParts[1], b \in VersionParts[2],
                          c \in VersionParts[3]}

GateEnvelopes == MakeEnvelopes({"new_window"}, Versions, {TRUE, FALSE}, {}, {})

GateInit == InitServer /\ InitClient /\ InitFrame /\ version \in Versions

GateDispatch ==
    /\ \E cmd \in GateEnvelopes : HandleCmd(cmd, {"value"})
    /\ UNCHANGED <<used, probes, served, clientVars, frameVars>>

GateNext == GateDispatch

GateSpec == GateInit /\ [][GateNext]_vars

(***************************************************************************)
(* The client: main, lines 221-258, and do_io with its transport, lines    *)
(* 89-157.  A frame on the wire is recorded as the envelope that           *)
(* encode_send was given.                                                  *)
(***************************************************************************)
\* main, line 246: do_io(global_opts.to, send, True, 10)
CancelTimeout == 10

\* values of --response-timeout
ResponseTimeouts == {1, 30}

\* send.pop(key, None)
EnvPop(e, key) == [k \in DOMAIN e \ {key} |-> e[k]]

\* send[key] = value
EnvSet(e, key, value) == [k \in DOMAIN e \cup {key} |-> IF k = key THEN value ELSE e[k]]

\* lines 177-184; uuid4() gives the id 1
CreateBasicCommand(name, payload, no_response, is_asynchronous) ==
    [cmd |-> name, version |-> version, no_response |-> no_response]
    @@ (IF payload # "None" THEN [k \in {"payload"} |-> payload] ELSE Nothing)
    @@ (IF is_asynchronous THEN [k \in {"async"} |-> 1] ELSE Nothing)

\* the chunks a generator payload yields
Chunks == <<"chunk 1", "chunk 2">>

\* do_io, lines 139-148: the frames to send, one for each chunk of a generator payload
Frames(e) ==
    IF Get(e, "payload", "None") = "generator"
    THEN [i \in DOMAIN Chunks |-> EnvSet(e, "payload", Chunks[i])]
    ELSE <<e>>

\* send_generator, line 146, leaves the last chunk in send
AfterFrames(e) ==
    IF Get(e, "payload", "None") = "generator"
    THEN EnvSet(e, "payload", Chunks[Len(Chunks)])
    ELSE e

\* what the server can answer; data is a JSON value, given by its Python type and
\* its text
Responses ==
    { [ok |-> TRUE],
      [ok |-> TRUE, data |-> [type |-> "NoneType", value |-> "None"]],
      [ok |-> TRUE, data |-> [type |-> "str", value |-> "text"]],
      [ok |-> TRUE, data |-> [type |-> "str", value |-> ""]],
      [ok |-> TRUE, data |-> [type |-> "int", value |-> "7"]],
      [ok |-> FALSE, error |-> "boom"],
      [ok |-> FALSE, error |-> "boom", tb |-> "trace"] }

\* except (TimeoutError, socket.timeout), line 243
Timeouts == {"TimeoutError", "socket.timeout"}

SystemExit(msg) == [kind |-> "SystemExit", msg |-> msg]
TimedOutAfter(t) == [text |-> "Timed out after", seconds |-> t]

ClientInit ==
    /\ InitServer
    /\ InitFrame
    /\ version = ServerVersion
    /\ pc = "create"
    /\ opts \in [cmd : {"new_window", "select_window"}, no_response : BOOLEAN,
                 response_timeout : ResponseTimeouts, to : {"socket", "tty"},
                 payload : {"None", "dict", "generator"}]
    /\ send = Nothing
    /\ exchange = 0
    /\ io_no_response = FALSE
    /\ io_timeout = 0
    /\ handles = <<>>
    /\ wire = <<>>
    /\ main_response = Nothing
    /\ exc = "none"
    /\ outcome = Nothing
    /\ reads = 0
    /\ cancels = 0

\* nothing else runs while the client does
ServerIdle == UNCHANGED <<serverVars, used, probes, served, frameVars>>

\* line 227, and the call of do_io at line 242
CreateCommand ==
    /\ ServerIdle
    /\ pc = "create"
    /\ send' = CreateBasicCommand(opts.cmd, opts.payload, opts.no_response,
                                  command_for_name[opts.cmd].is_asynchronous)
    /\ exchange' = 1
    /\ io_no_response' = opts.no_response
    /\ io_timeout' = opts.response_timeout
    /\ pc' = "enter"
    /\ UNCHANGED <<opts, handles, wire, main_response, exc, outcome, reads, cancels>>

\* "with io:", line 151.  SocketIO.__enter__, lines 94-98, creates the socket and
\* then connects; __exit__ runs only when __enter__ returned.  TTYIO.__enter__ opens
\* the tty.
Enter ==
    /\ ServerIdle
    /\ pc = "enter"
    /\ \/ /\ handles' = Append(handles, [kind |-> opts.to, state |-> "open"])
          /\ pc' = "send"
          /\ UNCHANGED exc
       \/ /\ opts.to = "socket"
          /\ handles' = Append(handles, [kind |-> "socket", state |-> "open"])
          /\ exc' \in {"ConnectionRefusedError", "TimeoutError"}
          /\ pc' = "main"
       \/ /\ opts.to = "tty"
          /\ exc' = "OSError"
          /\ pc' = "main"
          /\ UNCHANGED handles
    /\ UNCHANGED <<opts, send, exchange, io_no_response, io_timeout, wire, main_response,
                   outcome, reads, cancels>>

\* a slip: the response is read even when none was asked for
SkipsReadNever(no_response) == FALSE

\* line 153: if no_response: return {'ok': True}
SkipsRead(no_response) == no_response

\* io.send(send_data), line 152, and "if no_response: return {'ok': True}"
Send ==
    /\ ServerIdle
    /\ pc = "send"
    /\ \/ /\ wire' = wire \o Frames(send)
          /\ send' = AfterFrames(send)
          /\ IF SkipsRead(io_no_response)
             THEN main_response' = [ok |-> TRUE] /\ pc' = "exit"
             ELSE pc' = "recv" /\ UNCHANGED main_response
          /\ UNCHANGED exc
       \/ \E n \in 0 .. Len(Frames(send)) - 1 :
            /\ wire' = wire \o SubSeq(Frames(send), 1, n)
            /\ send' = IF n = 0 THEN send ELSE EnvSet(send, "payload", Chunks[n])
            /\ exc' = "BrokenPipeError"
            /\ pc' = "exit"
            /\ UNCHANGED main_response
    /\ UNCHANGED <<opts, exchange, io_no_response, io_timeout, handles, outcome, reads,
                   cancels>>

\* received = io.simple_recv(timeout=response_timeout), line 155, and line 157
Recv ==
    /\ ServerIdle
    /\ pc = "recv"
    /\ reads' = reads + 1
    /\ \/ main_response' \in Responses /\ UNCHANGED exc
       \/ exc' \in Timeouts \cup {"ConnectionResetError"} /\ UNCHANGED main_response
    /\ pc' = "exit"
    /\ UNCHANGED <<opts, send, exchange, io_no_response, io_timeout, handles, wire,
                   outcome, cancels>>

\* the end of "with io:".  SocketIO.__exit__, lines 100-104: shutdown, whose OSError
\* is suppressed, and close
Exit ==
    /\ ServerIdle
    /\ pc = "exit"
    /\ handles' = [handles EXCEPT ![Len(handles)].state = "closed"]
    /\ pc' = "main"
    /\ UNCHANGED <<opts, send, exchange, io_no_response, io_timeout, wire, main_response,
                   exc, outcome, reads, cancels>>

\* lines 243-246: the first do_io raised a timeout
OnTimeout ==
    /\ ServerIdle
    /\ pc = "main" /\ exchange = 1 /\ exc \in Timeouts
    /\ send' = EnvSet(EnvPop(send, "payload"), "cancel_async", TRUE)
    /\ cancels' = cancels + 1
    /\ exchange' = 2
    /\ io_no_response' = TRUE
    /\ io_timeout' = CancelTimeout
    /\ exc' = "none"
    /\ pc' = "enter"
    /\ UNCHANGED <<opts, handles, wire, main_response, outcome, reads>>

\* line 247: the second do_io returned
AfterCancel ==
    /\ ServerIdle
    /\ pc = "main" /\ exchange = 2 /\ exc = "none"
    /\ outcome' = SystemExit(TimedOutAfter(opts.response_timeout))
    /\ pc' = "done"
    /\ UNCHANGED <<opts, send, exchange, io_no_response, io_timeout, handles, wire,
                   main_response, exc, reads, cancels>>

\* an exception that line 243 does not catch, or one raised inside its handler
Propagate ==
    /\ ServerIdle
    /\ pc = "main" /\ exc # "none"
    /\ exchange = 1 => exc \notin Timeouts
    /\ outcome' = [kind |-> "exception", exc |-> exc]
    /\ pc' = "done"
    /\ UNCHANGED <<opts, send, exchange, io_no_response, io_timeout, handles, wire,
                   main_response, exc, reads, cancels>>

\* line 252: print(response['tb'], file=sys.stderr)
Traceback(r) == IF "tb" \in DOMAIN r THEN [stderr |-> r.tb] ELSE Nothing

\* a slip: the type of data is not looked at
InterpretedAnyType(r, no_response, string_return_is_error) ==
    IF no_response THEN [kind |-> "return", printed |-> <<>>]
    ELSE IF ~Get(r, "ok", FALSE) THEN SystemExit(r.error) @@ Traceback(r)
    ELSE IF "data" \notin DOMAIN r \/ r.data.type = "NoneType"
    THEN [kind |-> "return", printed |-> <<>>]
    ELSE IF string_return_is_error THEN SystemExit(r.data.value)
    ELSE [kind |-> "return", printed |-> <<r.data.value>>]

\* lines 248-258
Interpreted(r, no_response, string_return_is_error) ==
    IF no_response THEN [kind |-> "return", printed |-> <<>>]
    ELSE IF ~Get(r, "ok", FALSE) THEN SystemExit(r.error) @@ Traceback(r)
    ELSE IF "data" \notin DOMAIN r \/ r.data.type = "NoneType"
    THEN [kind |-> "return", printed |-> <<>>]
    ELSE IF string_return_is_error /\ r.data.type = "str" THEN SystemExit(r.data.value)
    ELSE [kind |-> "return", printed |-> <<r.data.value>>]

Interpret ==
    /\ ServerIdle
    /\ pc = "main" /\ exchange = 1 /\ exc = "none"
    /\ outcome' = Interpreted(main_response, opts.no_response,
                              command_for_name[opts.cmd].string_return_is_error)
    /\ pc' = "done"
    /\ UNCHANGED <<opts, send, exchange, io_no_response, io_timeout, handles, wire,
                   main_response, exc, reads, cancels>>

ClientNext ==
    \/ CreateCommand
    \/ Enter
    \/ Send
    \/ Recv
    \/ Exit
    \/ OnTimeout
    \/ AfterCancel
    \/ Propagate
    \/ Interpret

ClientSpec == ClientInit /\ [][ClientNext]_vars

(***************************************************************************)
(* SessionSpec: the client, and the server it talks to: handle_cmd is      *)
(* called with the frames the client wrote, one after the other, while     *)
(* the client goes on.                                                     *)
(***************************************************************************)
Serve ==
    /\ served < Len(wire)
    /\ HandleCmd(wire[served + 1], ExecOutcomes)
    /\ served' = served + 1
    /\ UNCHANGED <<used, probes, clientVars, frameVars>>

SessionNext == ClientNext \/ Serve

SessionSpec == ClientInit /\ [][SessionNext]_vars

Range(f) == {f[i] : i \in DOMAIN f}

(***************************************************************************)
(* Framing: encode_send (lines 84-86), encode_response_for_peer (lines     *)
(* 31-32), SocketIO.simple_recv (lines 119-127) and the json.loads of      *)
(* do_io, line 157.  Bytes and characters are one-character strings, ESC   *)
(* stands for the byte 0x1b and "é" for a character outside ASCII.         *)
(***************************************************************************)
ESC == "ESC"

NonAscii == {"é"}

\* a JSON value, as the pair of its type and its content: null, a boolean, an
\* integer, a string, an array or an object (the sequence of its <<key, value>>
\* pairs, in the order of the dict)
JNull == <<"null", "null">>
JBool(b) == <<"bool", b>>
JInt(n) == <<"int", n>>
JStr(s) == <<"str", s>>
JList(items) == <<"list", items>>
JDict(pairs) == <<"dict", pairs>>

RECURSIVE Flatten(_)
Flatten(ss) == IF ss = <<>> THEN <<>> ELSE Head(ss) \o Flatten(Tail(ss))

\* ', '.join
RECURSIVE Join(_)
Join(ss) ==
    IF ss = <<>> THEN <<>>
    ELSE IF Len(ss) = 1 THEN ss[1]
    ELSE ss[1] \o <<",", " ">> \o Join(Tail(ss))

DigitChars == <<"0", "1", "2", "3", "4", "5", "6", "7", "8", "9">>

RECURSIVE Digits(_)
Digits(n) ==
    IF n < 10 THEN <<DigitChars[n + 1]>>
    ELSE Digits(n \div 10) \o <<DigitChars[(n % 10) + 1]>>

\* json.dumps, ensure_ascii=True: the \uXXXX escapes of the characters it does not
\* write as they are
UnicodeEscapes ==
    [c \in {ESC} \cup NonAscii |->
        IF c = ESC THEN <<"0", "0", "1", "b">> ELSE <<"0", "0", "e", "9">>]

EscapeChar(c) ==
    IF c \in {"\"", "\\"} THEN <<"\\", c>>
    ELSE IF c \in DOMAIN UnicodeEscapes THEN <<"\\", "u">> \o UnicodeEscapes[c]
    ELSE <<c>>

DumpsString(s) ==
    <<"\"">> \o Flatten([i \in DOMAIN s |-> EscapeChar(s[i])]) \o <<"\"">>

\* json.dumps(x), with its default separators ', ' and ': '
RECURSIVE JsonDumps(_)
JsonDumps(x) ==
    CASE x[1] = "null" -> <<"n", "u", "l", "l">>
      [] x[1] = "bool" -> IF x[2] THEN <<"t", "r", "u", "e">>
                          ELSE <<"f", "a", "l", "s", "e">>
      [] x[1] = "int" -> Digits(x[2])
      [] x[1] = "str" -> DumpsString(x[2])
      [] x[1] = "list" ->
            <<"[">> \o Join([i \in DOMAIN x[2] |-> JsonDumps(x[2][i])]) \o <<"]">>
      [] x[1] = "dict" ->
            <<"{">> \o Join([i \in DOMAIN x[2] |->
                                DumpsString(x[2][i][1]) \o <<":", " ">>
                                \o JsonDumps(x[2][i][2])]) \o <<"}">>

\* json.loads(s): a recursive descent over the text; a step gives the value and
\* the index after it, or fails
Failed == [ok |-> FALSE]

Parsed(x, i) == [ok |-> TRUE, v |-> x, i |-> i]

At(s, i) == IF i \in DOMAIN s THEN s[i] ELSE "EOF"

StartsWith(s, i, w) ==
    i >= 1 /\ i + Len(w) - 1 <= Len(s) /\ SubSeq(s, i, i + Len(w) - 1) = w

\* the characters of a string literal, from i on, up to the closing quote
RECURSIVE ScanString(_, _, _)
ScanString(s, i, acc) ==
    IF At(s, i) \in {"EOF", ESC} THEN Failed
    ELSE IF At(s, i) = "\"" THEN Parsed(acc, i + 1)
    ELSE IF At(s, i) = "\\"
    THEN IF At(s, i + 1) \in {"\"", "\\"}
         THEN ScanString(s, i + 2, Append(acc, At(s, i + 1)))
         ELSE IF /\ At(s, i + 1) = "u"
                 /\ \E c \in DOMAIN UnicodeEscapes : StartsWith(s, i + 2, UnicodeEscapes[c])
         THEN ScanString(s, i + 6,
                         Append(acc, CHOOSE c \in DOMAIN UnicodeEscapes :
                                        StartsWith(s, i + 2, UnicodeEscapes[c])))
         ELSE Failed
    ELSE ScanString(s, i + 1, Append(acc, At(s, i)))

DigitValue(c) == CHOOSE n \in 0 .. 9 : DigitChars[n + 1] = c

RECURSIVE ScanInt(_, _, _)
ScanInt(s, i, acc) ==
    IF At(s, i) \in Range(DigitChars)
    THEN ScanInt(s, i + 1, 10 * acc + DigitValue(At(s, i)))
    ELSE Parsed(JInt(acc), i)

RECURSIVE ParseValue(_, _), ParseItems(_, _, _), ParsePairs(_, _, _)
ParseValue(s, i) ==
    IF At(s, i) = "\""
    THEN LET r == ScanString(s, i + 1, <<>>)
         IN  IF r.ok THEN Parsed(JStr(r.v), r.i) ELSE Failed
    ELSE IF StartsWith(s, i, <<"n", "u", "l", "l">>) THEN Parsed(JNull, i + 4)
    ELSE IF StartsWith(s, i, <<"t", "r", "u", "e">>) THEN Parsed(JBool(TRUE), i + 4)
    ELSE IF StartsWith(s, i, <<"f", "a", "l", "s", "e">>) THEN Parsed(JBool(FALSE), i + 5)
    ELSE IF At(s, i) \in Range(DigitChars) THEN ScanInt(s, i, 0)
    ELSE IF At(s, i) = "["
    THEN IF At(s, i + 1) = "]" THEN Parsed(JList(<<>>), i + 2)
         ELSE ParseItems(s, i + 1, <<>>)
    ELSE IF At(s, i) = "{"
    THEN IF At(s, i + 1) = "}" THEN Parsed(JDict(<<>>), i + 2)
         ELSE ParsePairs(s, i + 1, <<>>)
    ELSE Failed

ParseItems(s, i, acc) ==
    LET r == ParseValue(s, i)
    IN  IF ~r.ok THEN Failed
        ELSE IF At(s, r.i) = "]" THEN Parsed(JList(Append(acc, r.v)), r.i + 1)
        ELSE IF At(s, r.i) = "," /\ At(s, r.i + 1) = " "
        THEN ParseItems(s, r.i + 2, Append(acc, r.v))
        ELSE Failed

ParsePairs(s, i, acc) ==
    LET k == IF At(s, i) = "\"" THEN ScanString(s, i + 1, <<>>) ELSE Failed
        r == IF k.ok /\ At(s, k.i) = ":" /\ At(s, k.i + 1) = " "
             THEN ParseValue(s, k.i + 2) ELSE Failed
    IN  IF ~r.ok THEN Failed
        ELSE IF At(s, r.i) = "}"
        THEN Parsed(JDict(Append(acc, <<k.v, r.v>>)), r.i + 1)
        ELSE IF At(s, r.i) = "," /\ At(s, r.i + 1) = " "
        THEN ParsePairs(s, r.i + 2, Append(acc, <<k.v, r.v>>))
        ELSE Failed

JsonLoads(s) ==
    LET r == ParseValue(s, 1)
    IN  IF r.ok /\ r.i = Len(s) + 1 THEN r ELSE Failed

\* b'\x1bP@kitty-cmd' and b'\x1b\\'
Marker == <<ESC, "P", "@", "k", "i", "t", "t", "y", "-", "c", "m", "d">>

Terminator == <<ESC, "\\">>

IsAscii(s) == \A i \in DOMAIN s : s[i] \notin NonAscii

\* line 85: ('@kitty-cmd' + json.dumps(send)).encode('ascii') succeeds
EncodeSendEncodes(x) == IsAscii(JsonDumps(x))

\* lines 85-86
EncodeSend(x) == Marker \o JsonDumps(x) \o Terminator

\* a slip: the terminator is left out
EncodeResponseUnterminated(x) == Marker \o JsonDumps(x)

\* line 32
EncodeResponseForPeer(x) == Marker \o JsonDumps(x) \o Terminator

\* [^\x1b]+ from i on: the index after the longest run of bytes other than ESC
RECURSIVE RunEnd(_, _)
RunEnd(s, i) == IF i \in DOMAIN s /\ s[i] # ESC THEN RunEnd(s, i + 1) ELSE i

\* the pattern of line 120 matches at p
MatchesAt(s, p) ==
    /\ StartsWith(s, p, Marker)
    /\ RunEnd(s, p + Len(Marker)) > p + Len(Marker)
    /\ StartsWith(s, RunEnd(s, p + Len(Marker)), Terminator)

\* dcs.search(data) is not None
Matches(s) == \E p \in DOMAIN s : MatchesAt(s, p)

\* m.group(1) of the leftmost match
Group1(s) ==
    LET p == CHOOSE q \in DOMAIN s : MatchesAt(s, q) /\ \A o \in 1 .. q - 1 : ~MatchesAt(s, o)
    IN  SubSeq(s, p + Len(Marker), RunEnd(s, p + Len(Marker)) - 1)

(***************************************************************************)
(* FrameSpec: one structure through an encoder, the socket and the         *)
(* receiver.                                                               *)
(***************************************************************************)
Alphabet == {"a", "\"", "\\", ESC} \cup NonAscii

Strings == UNION {[1 .. n -> Alphabet] : n \in 0 .. MaxStringLen}

Scalars ==
    {JNull, JBool(TRUE), JBool(FALSE), JInt(0), JInt(7), JInt(120)}
    \cup {JStr(s) : s \in Strings}

Values ==
    Scalars
    \cup {JList(<<>>), JDict(<<>>), JList(<<JInt(1), JStr(<<ESC, "\\">>), JNull>>),
          JList(<<JList(<<JBool(TRUE)>>), JDict(<<<<<<"a">>, JInt(7)>>>>)>>)}
    \cup {JDict(<<<<s, JStr(s)>>, <<<<"i", "d">>, JInt(10)>>>>) :
            s \in {<<>>, <<"\"">>, <<ESC, "P">>, <<"é", "\\">>}}

\* what create_basic_command builds
CommandStructures ==
    {JDict(<<<<(<<"c", "m", "d">>), JStr(<<"l", "s">>)>>,
             <<(<<"v", "e", "r", "s", "i", "o", "n">>),
               JList(<<JInt(1), JInt(4), JInt(9)>>)>>,
             <<(<<"n", "o", "_", "r", "e", "s", "p", "o", "n", "s", "e">>), JBool(b)>>,
             <<(<<"p", "a", "y", "l", "o", "a", "d">>), x>>>>) :
        b \in BOOLEAN, x \in Values}

\* what handle_cmd and send_response_to_client build
ResponseStructures ==
    {JDict(<<<<(<<"o", "k">>), JBool(TRUE)>>,
             <<(<<"d", "a", "t", "a">>), x>>>>) : x \in Values}
    \cup {JDict(<<<<(<<"o", "k">>), JBool(FALSE)>>,
                  <<(<<"e", "r", "r", "o", "r">>), JStr(s)>>>>) : s \in Strings}

FrameInit ==
    /\ InitServer /\ InitClient /\ version = ServerVersion
    /\ \/ direction = "command" /\ envelope \in CommandStructures
       \/ direction = "response" /\ envelope \in ResponseStructures
    /\ stream = <<>>
    /\ received = <<>>
    /\ loaded = JNull
    /\ step = "encode"

FrameIdle == UNCHANGED <<serverVars, used, probes, served, clientVars>>

\* encode_send(send), or encode_response_for_peer(response)
Encode ==
    /\ FrameIdle
    /\ step = "encode"
    /\ IF direction = "command"
       THEN IF EncodeSendEncodes(envelope)
            THEN stream' = EncodeSend(envelope) /\ step' = "recv"
            ELSE step' = "UnicodeEncodeError" /\ UNCHANGED stream
       ELSE stream' = EncodeResponseForPeer(envelope) /\ step' = "recv"
    /\ UNCHANGED <<envelope, direction, received, loaded>>

\* simple_recv, lines 123-127: data = src.read(), the search, and the return
SimpleRecv ==
    /\ FrameIdle
    /\ step = "recv"
    /\ IF Matches(stream)
       THEN received' = Group1(stream) /\ step' = "loads"
       ELSE step' = "TimeoutError" /\ UNCHANGED received
    /\ UNCHANGED <<envelope, direction, stream, loaded>>

\* do_io, line 157: json.loads(received.decode('ascii'))
Loads ==
    /\ FrameIdle
    /\ step = "loads"
    /\ IF ~IsAscii(received) THEN step' = "UnicodeDecodeError" /\ UNCHANGED loaded
       ELSE IF JsonLoads(received).ok
       THEN loaded' = JsonLoads(received).v /\ step' = "done"
       ELSE step' = "JSONDecodeError" /\ UNCHANGED loaded
    /\ UNCHANGED <<envelope, direction, stream, received>>

FrameNext == Encode \/ SimpleRecv \/ Loads

FrameSpec == FrameInit /\ [][FrameNext]_vars

(***************************************************************************)
(* The claims.                                                             *)
(***************************************************************************)

\* the call that just returned was handle_cmd and got to line 53 with an async id
Registering(c, a) ==
    c.op = "handle_cmd" /\ c.async_id # NoAsyncId /\ a # "not called"

\* the envelope carries an async id and a cancellation marker
IsCancellation(cmd) ==
    Get(cmd, "async", NoAsyncId) # NoAsyncId /\ "cancel_async" \in DOMAIN cmd

\* d1 is d without the entry of id, the other entries and their order as they were
Without(d, d1, id) ==
    IF id \in Keys(d)
    THEN \E k \in DOMAIN d :
            d[k].id = id /\ d1 = SubSeq(d, 1, k - 1) \o SubSeq(d, k + 1, Len(d))
    ELSE d1 = d

\* C1 (RegistrySpec): whatever handle_cmd and send_response_to_client calls were
\* made, the registry holds at most 32 entries once the call has returned.
C1_AtMostCapacity == Len(active_async_requests) <= Capacity

\* the registry is full and the last call evicted an entry
C1_Witness == Len(active_async_requests) = Capacity /\ evicted # NoAsyncId

\* C2 (RegistrySpec): registering an id that is not in the registry while it holds 32
\* entries removes exactly one entry, the one inserted earliest among those present,
\* and leaves the new id in the registry; with fewer than 32 entries a registration
\* removes nothing.
C2_EvictsEarliestInserted ==
    [][Registering(call', ans') =>
        LET old == Keys(active_async_requests)
            new == Keys(active_async_requests')
            id == call'.async_id
        IN  /\ Len(active_async_requests) < Capacity => old \subseteq new
            /\ (id \notin old /\ Len(active_async_requests) = Capacity) =>
                 /\ id \in new
                 /\ \E e \in old :
                      /\ old \ new = {e}
                      /\ \A j \in old \ {e} : history[e].at < history[j].at]_vars

\* a registration evicted an entry while the registry held an entry whose
\* timestamp had been refreshed
C2_Witness ==
    /\ Registering(call, ans)
    /\ evicted # NoAsyncId
    /\ call.async_id \in Keys(active_async_requests)
    /\ \E i \in DOMAIN active_async_requests :
         active_async_requests[i].ts > history[active_async_requests[i].id].at

\* C3 (Spec): a completion delivery for an id whose last event was a cancellation or
\* a completion (no registration in between) writes nothing to a peer or a window
\* and leaves the registry as it was.
C3_NoDeliveryAfterCancelOrCompletion ==
    [][(/\ call'.op = "send_response_to_client"
        /\ Status(history, call'.async_id) \in {"cancelled", "completed"}) =>
       (written' = {} /\ active_async_requests' = active_async_requests)]_vars

\* a completion was delivered for an id that had been cancelled, and was dropped
C3_Witness ==
    /\ call.op = "send_response_to_client"
    /\ Status(history, call.async_id) = "cancelled"
    /\ written = {}
    /\ active_async_requests # <<>>

\* C4 (NoResponseSpec, where every request has no_response true): handle_cmd
\* returns nothing, whatever the outcome, and completion delivery never writes a
\* response to a peer.
C4_NoResponseNeverAnswered ==
    /\ (call.op = "handle_cmd" /\ Get(call.cmd, "no_response", FALSE)) => ret = None
    /\ call.op = "send_response_to_client" => \A w \in written : w.to # "peer"

\* C5 (GateSpec): handle_cmd rejects the envelope (the compatibility error, or nothing
\* when no_response is set, and no execution) exactly when the first two components
\* of its version are lexicographically greater than the first two of the server's.
C5_VersionGate ==
    call.op = "handle_cmd" =>
        LET cv == call.cmd.version
            newer == cv[1] > version[1] \/ (cv[1] = version[1] /\ cv[2] > version[2])
        IN  IF newer
            THEN /\ ans = "not called"
                 /\ ret = IF Get(call.cmd, "no_response", FALSE) THEN None ELSE CompatError
            ELSE ans # "not called" /\ ret # CompatError

\* client (1,5,0) against server (1,4,9) was rejected
C5_Witness ==
    /\ version = <<1, 4, 9>>
    /\ call.op = "handle_cmd"
    /\ call.cmd.version = <<1, 5, 0>>
    /\ ret = CompatError

\* C6 (ClientSpec): when the read timed out the client makes one attempt to send a
\* cancellation frame and ends with the timeout failure that names the configured
\* response timeout, whether or not the cancellation was sent.
C6_TimeoutEndsInTimeoutFailure ==
    (pc = "done" /\ reads > 0 /\ cancels > 0) =>
        /\ cancels = 1
        /\ outcome = SystemExit(TimedOutAfter(opts.response_timeout))

\* C7 (ClientSpec): the cancellation envelope on the wire has the cmd, the version and
\* the async id of the original, no payload, cancel_async true and no_response true.
C7_CancellationEnvelope ==
    \A i \in DOMAIN wire :
        "cancel_async" \in DOMAIN wire[i] =>
            LET f == wire[i]
                orig == CreateBasicCommand(opts.cmd, opts.payload, opts.no_response,
                                           command_for_name[opts.cmd].is_asynchronous)
            IN  /\ f.cmd = orig.cmd
                /\ f.version = orig.version
                /\ Get(f, "async", NoAsyncId) = Get(orig, "async", NoAsyncId)
                /\ "payload" \notin DOMAIN f
                /\ f.cancel_async = TRUE
                /\ f.no_response = TRUE

\* C8 as claimed (Spec): for every envelope with an async id and a cancellation
\* marker handle_cmd removes the id if it is registered and changes nothing else,
\* registers nothing, does not execute the command and returns nothing.
C8_EveryCancellation ==
    [][(call'.op = "handle_cmd" /\ IsCancellation(call'.cmd)) =>
        /\ Without(active_async_requests, active_async_requests', call'.async_id)
        /\ ans' = "not called"
        /\ ret' = None
        /\ written' = {}]_vars

\* C8 as amended (Spec): the same, for the envelopes that pass the version gate and
\* name a known command.
C8_DispatchedCancellation ==
    [][(/\ call'.op = "handle_cmd"
        /\ IsCancellation(call'.cmd)
        /\ ~ClientIsNewer(call'.cmd.version, version)
        /\ call'.cmd.cmd \in DOMAIN command_for_name) =>
        /\ Without(active_async_requests, active_async_requests', call'.async_id)
        /\ ans' = "not called"
        /\ ret' = None
        /\ written' = {}]_vars

\* a cancellation was dispatched while another id stayed registered
C8_Witness ==
    /\ call.op = "handle_cmd"
    /\ IsCancellation(call.cmd)
    /\ hook
    /\ Status(history, call.async_id) = "cancelled"
    /\ active_async_requests # <<>>

\* C9 (RegistrySpec): a completion delivery for an id whose last event was its
\* eviction writes nothing to a peer or a window.
C9_EvictedNeverCompleted ==
    [][(/\ call'.op = "send_response_to_client"
        /\ Status(history, call'.async_id) = "evicted") =>
       (written' = {} /\ active_async_requests' = active_async_requests)]_vars

\* a completion was delivered for an evicted id, and was dropped
C9_Witness ==
    /\ call.op = "send_response_to_client"
    /\ Status(history, call.async_id) = "evicted"
    /\ written = {}

\* C10 (ClientSpec): when do_io has ended, by a return or by an exception, every
\* socket it created is closed.
C10_SocketsReleased ==
    pc \in {"main", "done"} =>
        \A i \in DOMAIN handles :
            handles[i].kind = "socket" => handles[i].state = "closed"

\* C11 (ClientSpec): a run of the client calls simple_recv at most once; with
\* no_response true it never calls it, and once the request is sent it returns
\* without printing anything; the cancellation exchange that follows a timeout
\* sends and does not read.
C11_AtMostOneRead ==
    /\ [](reads <= 1)
    /\ [](opts.no_response => reads = 0)
    /\ []((pc = "done" /\ opts.no_response /\ exchange = 1 /\ exc = "none") =>
            (outcome = [kind |-> "return", printed |-> <<>>] /\ wire # <<>>))
    /\ [][exchange' = 2 => reads' = reads]_vars

\* the read timed out and the cancellation was sent: one read in all
C11_Witness ==
    /\ pc = "done"
    /\ reads = 1
    /\ cancels = 1
    /\ \E i \in DOMAIN wire : "cancel_async" \in DOMAIN wire[i]

\* C12 (ClientSpec): a response with ok false ends the client in a SystemExit with
\* the response's error; a response with ok true and string data ends it in a
\* SystemExit when the command has string_return_is_error; every other response
\* with ok true ends it in a return, with data printed if there is any.
C12_ResponseInterpretation ==
    (pc = "done" /\ reads = 1 /\ exchange = 1 /\ exc = "none") =>
        LET r == main_response
            isString == "data" \in DOMAIN r /\ r.data.type = "str"
        IN  /\ ~r.ok => (outcome.kind = "SystemExit" /\ outcome.msg = r.error)
            /\ (r.ok /\ isString /\ command_for_name[opts.cmd].string_return_is_error)
                  => outcome.kind = "SystemExit"
            /\ (r.ok /\ ~(isString /\ command_for_name[opts.cmd].string_return_is_error))
                  => /\ outcome.kind = "return"
                     /\ ("data" \in DOMAIN r /\ r.data.type # "NoneType")
                           => outcome.printed = <<r.data.value>>
                     /\ "data" \notin DOMAIN r => outcome.printed = <<>>

\* select_window, whose string result is an error, got ok true with string data
C12_Witness ==
    /\ pc = "done"
    /\ opts.cmd = "select_window"
    /\ main_response = [ok |-> TRUE, data |-> [type |-> "str", value |-> "text"]]
    /\ outcome = SystemExit("text")

\* the first two components of the envelope's version are greater than the server's
Newer(cmd) ==
    \/ cmd.version[1] > version[1]
    \/ cmd.version[1] = version[1] /\ cmd.version[2] > version[2]

\* C13 (Spec): a handle_cmd call whose envelope is not JSON, has a newer version, or
\* names no known command leaves the registry exactly as it was, does not execute or
\* cancel anything, and ends in the decoding error, the gate's answer (nothing with
\* no_response, the compatibility error without) or the KeyError of the lookup; so
\* also when the envelope has an async id or a cancellation marker.
C13_FailuresBeforeDispatch ==
    [][call'.op = "handle_cmd" =>
        LET cmd == call'.cmd
            same == /\ active_async_requests' = active_async_requests
                    /\ ans' = "not called"
                    /\ ~hook'
        IN  IF ~IsJson(cmd) THEN same /\ ret' = Raised("JSONDecodeError")
            ELSE IF "version" \notin DOMAIN cmd THEN same /\ ret'.kind = "raise"
            ELSE IF Newer(cmd)
            THEN same /\ ret' = IF Get(cmd, "no_response", FALSE) THEN None
                                ELSE CompatError
            ELSE IF "cmd" \notin DOMAIN cmd \/ cmd.cmd \notin DOMAIN command_for_name
            THEN same /\ ret' = Raised("KeyError")
            ELSE TRUE]_vars

\* a cancellation of a registered id named an unknown command: the id is still there
C13_Witness ==
    /\ call.op = "handle_cmd"
    /\ IsJson(call.cmd)
    /\ IsCancellation(call.cmd)
    /\ Get(call.cmd, "cmd", "") = "no_such_command"
    /\ ret = Raised("KeyError")
    /\ call.async_id \in Keys(active_async_requests)

\* C14 (FrameSpec): a structure wrapped by encode_send or by
\* encode_response_for_peer, read back by simple_recv and decoded by json.loads
\* comes out equal to the original; none of the steps raises.
C14_FramingRoundTrip ==
    /\ step \in {"encode", "recv", "loads", "done"}
    /\ step = "done" => loaded = envelope

\* a response whose data holds an ESC and a backslash made the round trip
C14_Witness ==
    /\ step = "done"
    /\ direction = "response"
    /\ loaded = envelope
    /\ \E i \in DOMAIN envelope[2] :
         envelope[2][i][2] = JList(<<JInt(1), JStr(<<ESC, "\\">>), JNull>>)

\* C15 (Spec): when handle_cmd executed the command and the execution returned, the
\* call returns nothing for a NoResponse, the AsyncResponse itself for an
\* AsyncResponse, and for any other value {ok: true, data: value} (no data for None)
\* if neither the command's no_response nor the envelope's is set, nothing if one is.
C15_ResultNormalisation ==
    (call.op = "handle_cmd" /\ ans \notin {"not called", "raise"}) =>
        LET suppressed == \/ Get(call.cmd, "no_response", FALSE)
                          \/ command_for_name[call.cmd.cmd].no_response
        IN  /\ ans = "NoResponse" => ret = [kind |-> "None"]
            /\ ans = "AsyncResponse" => ret = [kind |-> "AsyncResponse"]
            /\ (ans = "None" /\ ~suppressed) => ret = [kind |-> "response", ok |-> TRUE]
            /\ (ans = "value" /\ ~suppressed) =>
                  ret = [kind |-> "response", ok |-> TRUE, data |-> "value"]
            /\ (ans \in {"None", "value"} /\ suppressed) => ret = [kind |-> "None"]

\* signal_child, whose descriptor has no_response, returned a value to an envelope
\* without no_response: nothing came back
C15_Witness ==
    /\ call.op = "handle_cmd"
    /\ ans = "value"
    /\ call.cmd.cmd = "signal_child"
    /\ "no_response" \notin DOMAIN call.cmd
    /\ ret = None

\* the envelope gets past json.loads, the version gate and the lookup of the command
Dispatched(cmd) ==
    /\ IsJson(cmd)
    /\ "version" \in DOMAIN cmd /\ "cmd" \in DOMAIN cmd
    /\ ~Newer(cmd)
    /\ cmd.cmd \in DOMAIN command_for_name

\* C16 (Spec): of the dispatched envelopes with an async id, those whose cancel_async
\* is true are handled as cancellations (the cancellation hook, no execution, nothing
\* returned); for those whose cancel_async is absent or false the id is registered
\* and the command is executed.
C16_CancellationIffMarkedTrue ==
    [][(/\ call'.op = "handle_cmd"
        /\ Dispatched(call'.cmd)
        /\ call'.async_id # NoAsyncId) =>
        IF Get(call'.cmd, "cancel_async", FALSE)
        THEN hook' /\ ans' = "not called" /\ ret' = None
        ELSE /\ ~hook'
             /\ ans' # "not called"
             /\ call'.async_id \in Keys(active_async_requests')]_vars

\* what a completion with this error hands over
Expected(c) ==
    IF c.error = "" THEN [ok |-> TRUE, data |-> c.data]
    ELSE [ok |-> FALSE, error |-> c.error]

\* C17 as claimed (Spec): a completion delivery for a registered id removes the id
\* and hands over exactly one response, {ok: false, error} if an error is given and
\* {ok: true, data} if not: to the peer when the origin is a peer, to the window
\* when it is a window.
C17_ExactlyOneResponse ==
    [][(/\ call'.op = "send_response_to_client"
        /\ call'.async_id \in Keys(active_async_requests)) =>
        /\ call'.async_id \notin Keys(active_async_requests')
        /\ Without(active_async_requests, active_async_requests', call'.async_id)
        /\ Cardinality(written') = 1
        /\ \A w \in written' :
             /\ w.response = Expected(call')
             /\ IF call'.peer_id > 0 THEN w.to = "peer" /\ w.id = call'.peer_id
                ELSE w.to = "window" /\ w.id = call'.window_id]_vars

\* C17 as amended (Spec): a completion delivery for a registered id removes the id
\* and hands over at most one response, {ok: false, error} if an error is given and
\* {ok: true, data} if not: to the peer when peer_id > 0; otherwise to the window
\* when window_id > 0 and the window is found; nothing when the window is not found
\* (None, or the KeyError of the lookup, which propagates) or when there is no
\* origin.
C17_AtMostOneResponse ==
    [][(/\ call'.op = "send_response_to_client"
        /\ call'.async_id \in Keys(active_async_requests)) =>
        /\ call'.async_id \notin Keys(active_async_requests')
        /\ Without(active_async_requests, active_async_requests', call'.async_id)
        /\ written' =
             IF call'.peer_id > 0
             THEN {[to |-> "peer", id |-> call'.peer_id, response |-> Expected(call')]}
             ELSE IF call'.window_id > 0 /\ call'.window = "window"
             THEN {[to |-> "window", id |-> call'.window_id,
                    response |-> Expected(call')]}
             ELSE {}
        /\ ret' = IF call'.peer_id = 0 /\ call'.window_id > 0 /\ call'.window = "KeyError"
                  THEN Raised("KeyError") ELSE None]_vars

\* a failed completion of a registered id went to its window, another id stayed
C17_Witness ==
    /\ call.op = "send_response_to_client"
    /\ Status(history, call.async_id) = "completed"
    /\ written = {[to |-> "window", id |-> call.window_id,
                   response |-> [ok |-> FALSE, error |-> "failed"]]}
    /\ active_async_requests # <<>>

\* C18 (SessionSpec): the server does not execute the command of a cancellation
\* envelope that a client wrote after a timeout, and returns nothing for it: also
\* when the command is not asynchronous and the envelope has no async id.
C18_CancellationNeverExecutes ==
    (call.op = "handle_cmd" /\ Get(call.cmd, "cancel_async", FALSE)) =>
        (ans = "not called" /\ ret = None)

\* C19 (RegistrySpec): when handle_cmd returns the AsyncResponse for an envelope
\* with an async id, that id is in the registry: also when the registry was full
\* before the call, and when the id was registered already.
C19_DeferredIsRegistered ==
    (call.op = "handle_cmd" /\ ret = AsyncResponse /\ call.async_id # NoAsyncId) =>
        call.async_id \in Keys(active_async_requests)

\* the call that returned the AsyncResponse evicted an entry of a full registry
C19_Witness ==
    /\ call.op = "handle_cmd"
    /\ ret = AsyncResponse
    /\ evicted # NoAsyncId
    /\ Len(active_async_requests) = Capacity
    /\ call.async_id \in Keys(active_async_requests)

\* the ids of the registry, in iteration order
KeyOrder(d) == [i \in DOMAIN d |-> d[i].id]

\* C20 (RegistrySpec): registering an id that is in the registry keeps the ids of the
\* registry and their order, evicts nothing, and changes only the timestamp of that
\* id, to the time of the call; and whenever a registration evicts, it evicts the
\* entry that was first in that order, whatever its timestamp.
C20_ReRegistrationKeepsPosition ==
    [][Registering(call', ans') =>
        LET d == active_async_requests
            d1 == active_async_requests'
            id == call'.async_id
        IN  /\ id \in Keys(d) =>
                 /\ KeyOrder(d1) = KeyOrder(d)
                 /\ evicted' = NoAsyncId
                 /\ \A i \in DOMAIN d :
                      d1[i] = IF d[i].id = id THEN [id |-> id, ts |-> clock] ELSE d[i]
            /\ evicted' # NoAsyncId => evicted' = d[1].id]_vars

\* the first entry of a full registry was registered again: it is still the first,
\* with the latest timestamp
C20_Witness ==
    /\ Registering(call, ans)
    /\ Len(active_async_requests) = Capacity
    /\ evicted = NoAsyncId
    /\ active_async_requests[1].id = call.async_id
    /\ \A i \in 2 .. Capacity : active_async_requests[1].ts > active_async_requests[i].ts

====
